---- MODULE Spec2Model ----
(***************************************************************************)
(* State-machine model of MagneticHeroText (src/unnamed/part_000, lines    *)
(* 6-303): the magnetic hero-text effect, together with the parts of the   *)
(* browser it talks to (the animation-frame queue, the timer queue, the    *)
(* DOM content of the container, the layout of the word spans, the media   *)
(* query and the window size).                                             *)
(*                                                                         *)
(* Text is a sequence of one-character strings.  Lengths are CSS pixels;   *)
(* displacements are kept in fixed point, in units of 1/Scale pixel.       *)
(* Time is in milliseconds.  A timer that is due runs before any other     *)
(* event is delivered (timers are exact), and a frame boundary runs every  *)
(* callback of the animation-frame queue.                                  *)
(***************************************************************************)
EXTENDS Integers, Sequences, FiniteSets, TLC

(***************************************************************************)
(* Bounds of the model.                                                    *)
(***************************************************************************)
MaxWords == 2          \* most words of the container text
MaxMoves == 2          \* pointer-move events counted between two frame boundaries
MaxResizes == 2        \* resize events in one run
MaxTimers == 2         \* timers outstanding at once
MaxTextLen == 4        \* most characters of a text that is segmented
MaxPosts == 2          \* POST requests issued in one run
MaxSteps == 6          \* grid steps from the word's centre to the farthest pointer

(***************************************************************************)
(* Program constants.                                                      *)
(***************************************************************************)
maxDistance == 200     \* options.maxDistance default
maxDisplacement == 25  \* options.maxDisplacement default
resetDuration == 300   \* options.resetDuration default
ResizeDelay == 150     \* the debounce delay of handleResize
DesktopBreakpoint == 1024  \* widest viewport that is not a desktop

\* the longest time, in ms, that passes in one step: events are delivered at
\* multiples of half the debounce delay
TickStep == ResizeDelay \div 2

Scale == 100           \* fixed-point units per pixel

Null == 0              \* null handle: real frame and timer ids are >= 1

(***************************************************************************)
(* Inputs.                                                                 *)
(***************************************************************************)
\* the texts of the container: "a", "a a", "a a a", ...
Texts == {[i \in 1..(2 * n - 1) |-> IF i % 2 = 1 THEN "a" ELSE " "] : n \in 1..MaxWords}

\* the viewport widths: the widest non-desktop and the narrowest desktop
Widths == {DesktopBreakpoint, DesktopBreakpoint + 1}

\* the layout of the hero line: the line starts at a tenth of the viewport
\* width, every character is charW wide
Layout == [charW |-> 90, top |-> 300, height |-> 40]

\* clientX / clientY of the pointer events that are delivered
Pointers == {[clientX |-> 147, clientY |-> 320],
             [clientX |-> 207, clientY |-> 400]}

\* window.scrollY: the hero section is at the top of the page, which is not
\* scrolled while the pointer is over it; window.scrollX is 0
ScrollYs == {0}

(***************************************************************************)
(* Text: String.prototype.split(' '), Array.prototype.join(' ') and the    *)
(* textContent of an element.                                              *)
(***************************************************************************)
\* text.split(' '): the pieces between the literal spaces, empty pieces kept
RECURSIVE SplitFrom(_, _, _)
SplitFrom(text, i, cur) ==
    IF i > Len(text) THEN <<cur>>
    ELSE IF text[i] = " " THEN <<cur>> \o SplitFrom(text, i + 1, <<>>)
    ELSE SplitFrom(text, i + 1, Append(cur, text[i]))

Split(text) == SplitFrom(text, 1, <<>>)

\* pieces.join(' '); the empty array joins to the empty string
RECURSIVE Join(_)
Join(pieces) ==
    IF Len(pieces) = 0 THEN <<>>
    ELSE IF Len(pieces) = 1 THEN pieces[1]
    ELSE pieces[1] \o <<" ">> \o Join(Tail(pieces))

\* element.textContent: the texts of the child nodes, concatenated
RECURSIVE TextContent(_)
TextContent(nodes) ==
    IF Len(nodes) = 0 THEN <<>>
    ELSE nodes[1].text \o TextContent(Tail(nodes))

TextNode(text) == [kind |-> "text", text |-> text]

\* element.textContent = text: one text node, or no child for the empty string
PlainText(text) == IF Len(text) = 0 THEN <<>> ELSE <<TextNode(text)>>

(***************************************************************************)
(* Arithmetic of calculateMagneticForce in fixed point.                    *)
(***************************************************************************)
Abs(n) == IF n < 0 THEN -n ELSE n

\* the largest r with r * r <= n, searched in lo..hi
RECURSIVE SqrtIn(_, _, _)
SqrtIn(n, lo, hi) ==
    IF lo >= hi THEN lo
    ELSE LET mid == (lo + hi + 1) \div 2
         IN IF mid * mid <= n THEN SqrtIn(n, mid, hi) ELSE SqrtIn(n, lo, mid - 1)

\* division truncating toward zero
DivT(a, b) == IF a >= 0 THEN a \div b ELSE -((-a) \div b)

Zero == [translateX |-> 0, translateY |-> 0]

\* calculateMagneticForce without the test distance >= maxDistance: beyond
\* maxDistance the force is negative and the word is pushed away
calculateMagneticForce_NoCutoff(wordRect, mouseX, mouseY) ==
    LET deltaX == mouseX - wordRect.centerX
        deltaY == mouseY - wordRect.centerY
        reach == maxDistance * Scale
        distance == SqrtIn(deltaX * deltaX + deltaY * deltaY, 0,
                           Abs(deltaX) + Abs(deltaY))
        displacement == DivT((reach - distance) * maxDisplacement, maxDistance)
    IN  IF distance = 0
        THEN [translateX |-> displacement, translateY |-> 0]
        ELSE [translateX |-> DivT(deltaX * displacement, distance),
              translateY |-> DivT(deltaY * displacement, distance)]

\* calculateMagneticForce with force = distance / maxDistance: the pull
\* grows with the distance instead of falling
calculateMagneticForce_ForceGrows(wordRect, mouseX, mouseY) ==
    LET deltaX == mouseX - wordRect.centerX
        deltaY == mouseY - wordRect.centerY
        reach == maxDistance * Scale
    IN  IF Abs(deltaX) >= reach \/ Abs(deltaY) >= reach
           \/ deltaX * deltaX + deltaY * deltaY >= reach * reach
        THEN Zero
        ELSE LET distance == SqrtIn(deltaX * deltaX + deltaY * deltaY, 0, reach)
                 displacement == (distance * maxDisplacement) \div maxDistance
             IN  IF distance = 0
                 THEN [translateX |-> displacement, translateY |-> 0]
                 ELSE [translateX |-> DivT(deltaX * displacement, distance),
                       translateY |-> DivT(deltaY * displacement, distance)]

\* the factor by which a squared distance n is refined before its root is
\* taken: the largest power of ten that keeps n * factor * factor in 32 bits
Refine(n) ==
    IF n <= 21 THEN 10000
    ELSE IF n <= 2147 THEN 1000
    ELSE IF n <= 214748 THEN 100
    ELSE IF n <= 21474836 THEN 10
    ELSE 1

\* the pull on a word whose cached rectangle is wordRect, with the pointer at
\* (mouseX, mouseY); all coordinates and the result are in 1/Scale pixel.
\* distance >= maxDistance is decided exactly, on the squares; the direction
\* (cos and sin of atan2(deltaY, deltaX)) is deltaX / distance and
\* deltaY / distance with the distance refined by Refine.
calculateMagneticForce(wordRect, mouseX, mouseY) ==
    LET deltaX == mouseX - wordRect.centerX
        deltaY == mouseY - wordRect.centerY
        reach == maxDistance * Scale
    IN  IF Abs(deltaX) >= reach \/ Abs(deltaY) >= reach
           \/ deltaX * deltaX + deltaY * deltaY >= reach * reach
        THEN Zero
        ELSE LET squared == deltaX * deltaX + deltaY * deltaY
                 fine == Refine(squared)
                 \* the root of a 32-bit number is at most 46340
                 fineDistance == SqrtIn(squared * fine * fine, 0, 46340)
                 distance == fineDistance \div fine
                 \* force * maxDisplacement, with force = 1 - distance / maxDistance
                 displacement == ((reach - distance) * maxDisplacement) \div maxDistance
             IN  IF squared = 0
                 THEN \* atan2(0, 0) = 0: cos = 1, sin = 0
                      [translateX |-> displacement, translateY |-> 0]
                 ELSE [translateX |-> DivT(deltaX * fine * displacement, fineDistance),
                       translateY |-> DivT(deltaY * fine * displacement, fineDistance)]

(***************************************************************************)
(* Layout: what getBoundingClientRect reports for the word spans.          *)
(***************************************************************************)
\* number of characters of the line before word i (the words before it and
\* one space after each of them)
RECURSIVE CharsBefore(_, _)
CharsBefore(ws, i) ==
    IF i <= 1 THEN 0 ELSE CharsBefore(ws, i - 1) + Len(ws[i - 1].text) + 1

\* the viewport rectangle of word i of ws, in 1/Scale pixel: its place in
\* the line, moved by the page scroll and by the word's own transform
BoundingClientRect(ws, i, width, sy) ==
    [left   |-> ((width \div 10) + Layout.charW * CharsBefore(ws, i)) * Scale
                + ws[i].transform.translateX,
     top    |-> (Layout.top - sy) * Scale + ws[i].transform.translateY,
     width  |-> Layout.charW * Len(ws[i].text) * Scale,
     height |-> Layout.height * Scale]

\* the rectangles cacheBoundingRects stores for the words ws (scrollX is 0)
MeasureRects(ws, width, sy) ==
    [i \in 1..Len(ws) |->
        LET rect == BoundingClientRect(ws, i, width, sy)
        IN  [left    |-> rect.left,
             top     |-> rect.top + sy * Scale,
             width   |-> rect.width,
             height  |-> rect.height,
             centerX |-> rect.left + rect.width \div 2,
             centerY |-> rect.top + sy * Scale + rect.height \div 2]]

(***************************************************************************)
(* State.                                                                  *)
(***************************************************************************)
VARIABLES
    \* the environment
    touch,           \* 'ontouchstart' in window || navigator.maxTouchPoints > 0
    innerWidth,      \* window.innerWidth
    reducedMotion,   \* matchMedia('(prefers-reduced-motion: reduce)').matches
    scrollY,         \* window.scrollY
    elementFound,    \* document.querySelector(selector) finds the container
    heroSection,     \* the container has an ancestor .hero-section
    originalText,    \* the text the container held when the page was loaded
    \* the container in the DOM
    content,         \* its child nodes, in order
    magneticEnabled, \* its class magnetic-enabled
    \* the fields of the instance
    element, words, wordRects, rafId, isActive, resizeTimeout,
    \* the listeners the instance has registered
    mouseListeners, resizeListener, motionListener,
    \* the browser's queues
    frames,          \* requestAnimationFrame callbacks not yet run
    timers,          \* setTimeout callbacks not yet run, oldest first
    warned,          \* console.warn was called
    \* history
    lifecycle,       \* New, Uninitialized, Active or Destroyed
    window,          \* pointer-moves and frame requests since the last frame
                     \* boundary, pointer-leave or teardown
    burst,           \* the current burst of resize events
    sinceResize,     \* ms since the last resize event handled, up to ResizeDelay
    resizes,         \* resize events so far
    \* the contact form of the page and its ContactForm instance
    fields,          \* the required fields of the form, in document order
    formStatus,      \* the element formStatus: what showStatus last wrote
    submitBtn,       \* the element submitBtn: disabled and textContent
    requests,        \* the fetch requests that have not settled yet
    posts            \* POST requests issued so far

env == <<touch, innerWidth, reducedMotion, scrollY, elementFound, heroSection,
         originalText>>
dom == <<content, magneticEnabled>>
listeners == <<mouseListeners, resizeListener, motionListener>>
history == <<lifecycle, window, burst, sinceResize, resizes>>
contact == <<fields, formStatus, submitBtn, requests, posts>>
hero == <<env, dom, element, words, wordRects, rafId, isActive, resizeTimeout,
          listeners, frames, timers, warned, history>>
vars == <<hero, contact>>

NoEvent == [clientX |-> -1, clientY |-> -1]
EmptyWindow == [moves |-> 0, scheduled |-> 0, latest |-> NoEvent]
NoBurst == [events |-> 0, checks |-> 0, rebuilds |-> 0]

Min(a, b) == IF a <= b THEN a ELSE b

\* the smallest handle >= 1 that is in none of used
FreshId(used) == CHOOSE n \in 1..(Cardinality(used) + 1) : n \notin used

Ids(queue) == {queue[i].id : i \in 1..Len(queue)}

\* the queue without the entry whose handle is id (cancelAnimationFrame,
\* clearTimeout); an unknown handle removes nothing
Without(queue, id) == SelectSeq(queue, LAMBDA t : t.id # id)

TimerDue == \E i \in 1..Len(timers) : timers[i].rem = 0

\* the timer whose callback runs next: the oldest of those that are due
NextDue == timers[CHOOSE i \in 1..Len(timers) :
                    /\ timers[i].rem = 0
                    /\ \A j \in 1..(i - 1) : timers[j].rem # 0]

(***************************************************************************)
(* The methods of MagneticHeroText.                                        *)
(***************************************************************************)
\* shouldInitialize with < for <= in the viewport test
shouldInitialize_Strict ==
    IF touch THEN FALSE
    ELSE IF innerWidth < DesktopBreakpoint THEN FALSE
    ELSE IF reducedMotion THEN FALSE
    ELSE TRUE

shouldInitialize ==
    IF touch THEN FALSE
    ELSE IF innerWidth <= DesktopBreakpoint THEN FALSE
    ELSE IF reducedMotion THEN FALSE
    ELSE TRUE

\* the word spans splitTextIntoWords pushes onto this.words
SplitWords(text) ==
    LET pieces == Split(text)
    IN  [i \in 1..Len(pieces) |->
            [text |-> pieces[i], active |-> FALSE, transform |-> Zero]]

\* the children of splitTextIntoWords without the test index < length - 1:
\* a space span follows the last word too
SplitContent_SpaceAfterEvery(text) ==
    LET pieces == Split(text)
    IN  [k \in 1..(2 * Len(pieces)) |->
            IF k % 2 = 1 THEN [kind |-> "word", text |-> pieces[(k + 1) \div 2]]
            ELSE [kind |-> "space", text |-> <<" ">>]]

\* the children splitTextIntoWords appends to the emptied container: a word
\* span per piece and a space span after every piece but the last
SplitContent(text) ==
    LET pieces == Split(text)
    IN  [k \in 1..(2 * Len(pieces) - 1) |->
            IF k % 2 = 1 THEN [kind |-> "word", text |-> pieces[(k + 1) \div 2]]
            ELSE [kind |-> "space", text |-> <<" ">>]]

splitTextIntoWords ==
    /\ content' = SplitContent(TextContent(content))
    /\ magneticEnabled' = TRUE
    /\ words' = words \o SplitWords(TextContent(content))

\* cacheBoundingRects, run on the words ws
cacheBoundingRects(ws) ==
    wordRects' = MeasureRects(ws, innerWidth, scrollY)

setupEventListeners ==
    /\ mouseListeners' = heroSection
    /\ resizeListener' = TRUE

setupReducedMotionListener ==
    motionListener' = TRUE

\* init without the return after console.warn: the listeners are registered
\* although no container was found
init_NoReturnAfterWarn ==
    IF ~shouldInitialize
    THEN /\ lifecycle' = "Uninitialized"
         /\ UNCHANGED <<dom, element, words, wordRects, listeners, warned>>
    ELSE IF ~elementFound
    THEN /\ warned' = TRUE
         /\ lifecycle' = "Uninitialized"
         /\ setupEventListeners
         /\ setupReducedMotionListener
         /\ UNCHANGED <<dom, element, words, wordRects>>
    ELSE /\ element' = TRUE
         /\ splitTextIntoWords
         /\ cacheBoundingRects(words')
         /\ setupEventListeners
         /\ setupReducedMotionListener
         /\ lifecycle' = "Active"
         /\ UNCHANGED warned

\* init with the container looked up before the eligibility gate
init_LookupFirst ==
    IF ~elementFound
    THEN /\ warned' = TRUE
         /\ lifecycle' = "Uninitialized"
         /\ UNCHANGED <<dom, element, words, wordRects, listeners>>
    ELSE IF ~shouldInitialize
    THEN /\ lifecycle' = "Uninitialized"
         /\ UNCHANGED <<dom, element, words, wordRects, listeners, warned>>
    ELSE /\ element' = TRUE
         /\ splitTextIntoWords
         /\ cacheBoundingRects(words')
         /\ setupEventListeners
         /\ setupReducedMotionListener
         /\ lifecycle' = "Active"
         /\ UNCHANGED warned

init ==
    IF ~shouldInitialize
    THEN /\ lifecycle' = "Uninitialized"
         /\ UNCHANGED <<dom, element, words, wordRects, listeners, warned>>
    ELSE IF ~elementFound
    THEN /\ warned' = TRUE
         /\ lifecycle' = "Uninitialized"
         /\ UNCHANGED <<dom, element, words, wordRects, listeners>>
    ELSE /\ element' = TRUE
         /\ splitTextIntoWords
         /\ cacheBoundingRects(words')
         /\ setupEventListeners
         /\ setupReducedMotionListener
         /\ lifecycle' = "Active"
         /\ UNCHANGED warned

\* updateWordPositions with animateWord: every word gets the transform that
\* calculateMagneticForce gives for its cached rectangle
updateWordPositions(ws, rects, mouseX, mouseY) ==
    [i \in 1..Len(ws) |->
        [ws[i] EXCEPT !.transform = calculateMagneticForce(rects[i], mouseX, mouseY)]]

\* the document position a frame callback computes from its event
MouseX(e) == e.clientX * Scale
MouseY(e) == (e.clientY + scrollY) * Scale

\* handleMouseMove without its guard on rafId
handleMouseMove_NoGuard(e) ==
    /\ rafId' = FreshId(Ids(frames))
    /\ frames' = Append(frames, [id |-> rafId', e |-> e])
    /\ IF ~isActive
       THEN /\ isActive' = TRUE
            /\ words' = [i \in 1..Len(words) |-> [words[i] EXCEPT !.active = TRUE]]
       ELSE UNCHANGED <<isActive, words>>

handleMouseMove(e) ==
    IF rafId # Null
    THEN UNCHANGED <<rafId, frames, isActive, words>>
    ELSE /\ rafId' = FreshId(Ids(frames))
         /\ frames' = Append(frames, [id |-> rafId', e |-> e])
         /\ IF ~isActive
            THEN /\ isActive' = TRUE
                 /\ words' = [i \in 1..Len(words) |-> [words[i] EXCEPT !.active = TRUE]]
            ELSE UNCHANGED <<isActive, words>>

\* reset that schedules its timer only when none is outstanding
reset_OneTimer(ws) ==
    /\ words' = [i \in 1..Len(ws) |-> [ws[i] EXCEPT !.transform = Zero]]
    /\ IF isActive /\ \A i \in 1..Len(timers) : timers[i].kind # "clear"
       THEN timers' = Append(timers,
                [id |-> FreshId(Ids(timers) \cup {resizeTimeout}),
                 kind |-> "clear", rem |-> resetDuration])
       ELSE UNCHANGED timers

\* reset, run on the words ws
reset(ws) ==
    /\ words' = [i \in 1..Len(ws) |-> [ws[i] EXCEPT !.transform = Zero]]
    /\ IF isActive
       THEN timers' = Append(timers,
                [id |-> FreshId(Ids(timers) \cup {resizeTimeout}),
                 kind |-> "clear", rem |-> resetDuration])
       ELSE UNCHANGED timers

\* handleMouseLeave without cancelAnimationFrame
handleMouseLeave_NoCancel ==
    /\ UNCHANGED <<frames, rafId>>
    /\ reset(words)

handleMouseLeave ==
    /\ IF rafId # Null
       THEN /\ frames' = Without(frames, rafId)
            /\ rafId' = Null
       ELSE UNCHANGED <<frames, rafId>>
    /\ reset(words)

\* handleResize without clearTimeout
handleResize_NoClear ==
    LET id == FreshId(Ids(timers))
    IN  /\ timers' = Append(timers, [id |-> id, kind |-> "resize", rem |-> ResizeDelay])
        /\ resizeTimeout' = id

handleResize ==
    LET left == Without(timers, resizeTimeout)
        id == FreshId(Ids(left))
    IN  /\ timers' = Append(left, [id |-> id, kind |-> "resize", rem |-> ResizeDelay])
        /\ resizeTimeout' = id

\* destroy without this.wordRects = []
destroy_KeepsWordRects ==
    /\ IF rafId # Null
       THEN /\ frames' = Without(frames, rafId)
            /\ rafId' = Null
       ELSE UNCHANGED <<frames, rafId>>
    /\ mouseListeners' = (IF element /\ heroSection THEN FALSE ELSE mouseListeners)
    /\ resizeListener' = FALSE
    /\ IF element
       THEN /\ content' = PlainText(Join([i \in 1..Len(words) |-> words[i].text]))
            /\ magneticEnabled' = FALSE
       ELSE UNCHANGED dom
    /\ words' = <<>>
    /\ wordRects' = wordRects
    /\ isActive' = FALSE
    /\ lifecycle' = "Destroyed"
    /\ window' = EmptyWindow

\* destroy without window.removeEventListener('resize', ...)
destroy_KeepsResizeListener ==
    /\ IF rafId # Null
       THEN /\ frames' = Without(frames, rafId)
            /\ rafId' = Null
       ELSE UNCHANGED <<frames, rafId>>
    /\ mouseListeners' = (IF element /\ heroSection THEN FALSE ELSE mouseListeners)
    /\ resizeListener' = resizeListener
    /\ IF element
       THEN /\ content' = PlainText(Join([i \in 1..Len(words) |-> words[i].text]))
            /\ magneticEnabled' = FALSE
       ELSE UNCHANGED dom
    /\ words' = <<>>
    /\ wordRects' = <<>>
    /\ isActive' = FALSE
    /\ lifecycle' = "Destroyed"
    /\ window' = EmptyWindow

destroy ==
    /\ IF rafId # Null
       THEN /\ frames' = Without(frames, rafId)
            /\ rafId' = Null
       ELSE UNCHANGED <<frames, rafId>>
    /\ mouseListeners' = (IF element /\ heroSection THEN FALSE ELSE mouseListeners)
    /\ resizeListener' = FALSE
    /\ IF element
       THEN /\ content' = PlainText(Join([i \in 1..Len(words) |-> words[i].text]))
            /\ magneticEnabled' = FALSE
       ELSE UNCHANGED dom
    /\ words' = <<>>
    /\ wordRects' = <<>>
    /\ isActive' = FALSE
    /\ lifecycle' = "Destroyed"
    /\ window' = EmptyWindow

(***************************************************************************)
(* ContactForm (src/js/main.js, lines 194-308).  A field is a record of    *)
(* its type, its value and the error message shown for it ("" when the     *)
(* field has no class error).                                              *)
(***************************************************************************)
\* the values typed into a text field and into an email field
TextValues == {<<>>, <<" ">>, <<"a">>, <<" ", "a", " ">>}

EmailValues ==
    {<<>>,
     <<"a">>,
     <<"a", "@", "b">>,
     <<"a", "@", "b", ".", "c">>,
     <<" ", "a", "@", "b", ".", "c", " ">>,
     <<"a", " ", "@", "b", ".", "c">>,
     <<"@", "b", ".", "c">>,
     <<"a", "@", ".", "c">>}

ValuesOf(type) == IF type = "email" THEN EmailValues ELSE TextValues

\* how a fetch settles: a response with ok, a response without, or a throw
Outcomes == {"ok", "notOk", "throws"}

RequiredMessage == "This field is required"
EmailMessage == "Please enter a valid email address"
InvalidStatus == [textContent |-> "Please fill in all required fields correctly.",
                  className |-> "form-status error"]
SuccessStatus == [textContent |-> "Thank you! Your message has been sent.",
                  className |-> "form-status success"]
FailureStatus == [textContent |-> "Oops! There was a problem sending your message.",
                  className |-> "form-status error"]
NoStatus == [textContent |-> "", className |-> "form-status"]
SendLabel == "Send Message"
SendingLabel == "Sending..."

\* String.prototype.trim: the value without its leading and trailing spaces
RECURSIVE TrimStart(_)
TrimStart(v) ==
    IF Len(v) > 0 /\ v[1] = " " THEN TrimStart(Tail(v)) ELSE v

RECURSIVE TrimEnd(_)
TrimEnd(v) ==
    IF Len(v) > 0 /\ v[Len(v)] = " " THEN TrimEnd(SubSeq(v, 1, Len(v) - 1)) ELSE v

Trim(v) == TrimEnd(TrimStart(v))

\* /^[^\s@]+@[^\s@]+\.[^\s@]+$/.test(email): no space, exactly one @, which
\* is not first, and a dot after it that is neither next to it nor last
isValidEmail(email) ==
    LET ats == {i \in 1..Len(email) : email[i] = "@"}
    IN  /\ \A i \in 1..Len(email) : email[i] # " "
        /\ Cardinality(ats) = 1
        /\ \A p \in ats :
              /\ p > 1
              /\ \E q \in (p + 2)..(Len(email) - 1) : email[q] = "."

\* the message validateField shows for a field, "" when it returns true
ValidationError(field) ==
    LET value == Trim(field.value)
    IN  IF value = <<>> THEN RequiredMessage
        ELSE IF field.type = "email" /\ ~isValidEmail(value) THEN EmailMessage
        ELSE ""

\* the fields after validateField has run on field i (showError or
\* clearError)
validateField(fs, i) == [fs EXCEPT ![i].error = ValidationError(fs[i])]

\* the fields after clearError has run on field i
clearError(fs, i) == [fs EXCEPT ![i].error = ""]

\* the fields after validateField has run on every one of them
ValidateAll(fs) == [i \in 1..Len(fs) |-> validateField(fs, i)[i]]

\* the page as loaded: an empty name field and an empty email field, no
\* status, the button enabled with the label the markup gives it
ContactLoaded ==
    /\ fields = <<[type |-> "text", value |-> <<>>, error |-> ""],
                  [type |-> "email", value |-> <<>>, error |-> ""]>>
    /\ formStatus = NoStatus
    /\ submitBtn = [disabled |-> FALSE, textContent |-> SendLabel]
    /\ requests = <<>>
    /\ posts = 0

\* the user types the value v into field i: the input listener clears the
\* field's error
InputField(i, v) ==
    /\ v # fields[i].value
    /\ fields' = clearError([fields EXCEPT ![i].value = v], i)
    /\ UNCHANGED <<hero, formStatus, submitBtn, requests, posts>>

\* field i loses the focus: the blur listener validates it
BlurField(i) ==
    /\ fields' = validateField(fields, i)
    /\ UNCHANGED <<hero, formStatus, submitBtn, requests, posts>>

\* handleSubmit with isValid taken from the last field only
handleSubmit_LastFieldOnly ==
    /\ fields' = ValidateAll(fields)
    /\ IF fields'[Len(fields)].error # ""
       THEN /\ formStatus' = InvalidStatus
            /\ UNCHANGED <<submitBtn, requests, posts>>
       ELSE /\ submitBtn' = [disabled |-> TRUE, textContent |-> SendingLabel]
            /\ requests' = Append(requests,
                                  [body |-> [i \in 1..Len(fields) |-> fields[i].value],
                                   state |-> "pending"])
            /\ posts' = posts + 1
            /\ UNCHANGED formStatus

\* handleSubmit up to its await: every required field is validated; the
\* request is sent only if all of them are valid
handleSubmit ==
    /\ fields' = ValidateAll(fields)
    /\ IF \E i \in 1..Len(fields) : fields'[i].error # ""
       THEN /\ formStatus' = InvalidStatus
            /\ UNCHANGED <<submitBtn, requests, posts>>
       ELSE /\ submitBtn' = [disabled |-> TRUE, textContent |-> SendingLabel]
            /\ requests' = Append(requests,
                                  [body |-> [i \in 1..Len(fields) |-> fields[i].value],
                                   state |-> "pending"])
            /\ posts' = posts + 1
            /\ UNCHANGED formStatus

\* the form is submitted (the button is clicked, or Enter is pressed in a
\* field); the browser submits nothing while the submit button is disabled
Submit ==
    /\ ~submitBtn.disabled
    /\ posts < MaxPosts
    /\ handleSubmit
    /\ UNCHANGED hero

\* handleSubmit after its await, with the button restored only after a
\* response that is ok
resume_NoFinally(outcome) ==
    /\ IF outcome = "ok"
       THEN /\ formStatus' = SuccessStatus
            /\ fields' = [i \in 1..Len(fields) |-> [fields[i] EXCEPT !.value = <<>>]]
            /\ submitBtn' = [disabled |-> FALSE, textContent |-> SendLabel]
       ELSE /\ formStatus' = FailureStatus
            /\ UNCHANGED <<fields, submitBtn>>

\* handleSubmit after its await: the try, catch and finally blocks
resume(outcome) ==
    /\ IF outcome = "ok"
       THEN /\ formStatus' = SuccessStatus
            \* form.reset(): every field back to its default value
            /\ fields' = [i \in 1..Len(fields) |-> [fields[i] EXCEPT !.value = <<>>]]
       ELSE /\ formStatus' = FailureStatus
            /\ UNCHANGED fields
    /\ submitBtn' = [disabled |-> FALSE, textContent |-> SendLabel]

\* the fetch settles: its promise resolves with a response or rejects
Settle ==
    /\ requests # <<>>
    /\ requests[1].state = "pending"
    /\ \E outcome \in Outcomes : requests' = [requests EXCEPT ![1].state = outcome]
    /\ UNCHANGED <<hero, fields, formStatus, submitBtn, posts>>

\* handleSubmit resumes after the await with the outcome of the fetch
Resume ==
    /\ requests # <<>>
    /\ requests[1].state # "pending"
    /\ requests' = Tail(requests)
    /\ resume(requests[1].state)
    /\ UNCHANGED <<hero, posts>>

(***************************************************************************)
(* Initial state: the page is loaded, the constructor has set the fields   *)
(* (lines 20-25) and has not yet called init.                              *)
(***************************************************************************)
Init ==
    /\ touch \in BOOLEAN
    /\ innerWidth \in Widths
    /\ reducedMotion \in BOOLEAN
    /\ scrollY \in ScrollYs
    /\ elementFound \in BOOLEAN
    /\ heroSection \in (IF elementFound THEN BOOLEAN ELSE {FALSE})
    /\ originalText \in (IF elementFound THEN Texts ELSE {<<>>})
    /\ content = PlainText(originalText)
    /\ magneticEnabled = FALSE
    /\ element = FALSE
    /\ words = <<>>
    /\ wordRects = <<>>
    /\ rafId = Null
    /\ isActive = FALSE
    /\ resizeTimeout = Null
    /\ mouseListeners = FALSE
    /\ resizeListener = FALSE
    /\ motionListener = FALSE
    /\ frames = <<>>
    /\ timers = <<>>
    /\ warned = FALSE
    /\ lifecycle = "New"
    /\ window = EmptyWindow
    /\ burst = NoBurst
    /\ sinceResize = ResizeDelay
    /\ resizes = 0
    /\ ContactLoaded

(***************************************************************************)
(* Actions.                                                                *)
(***************************************************************************)
\* an event is delivered only after the constructor has returned and when
\* no timer is due
Idle == lifecycle # "New" /\ ~TimerDue

\* new MagneticHeroText(selector): the constructor calls init
Construct ==
    /\ lifecycle = "New"
    /\ init
    /\ UNCHANGED <<env, rafId, isActive, resizeTimeout, frames, timers,
                   window, burst, sinceResize, resizes>>
    /\ UNCHANGED contact

\* a mousemove event e on the hero section
MouseMove(e) ==
    /\ Idle
    /\ mouseListeners
    /\ window.moves < MaxMoves
    /\ handleMouseMove(e)
    /\ window' = [moves |-> window.moves + 1,
                  scheduled |-> window.scheduled + Len(frames') - Len(frames),
                  latest |-> e]
    /\ UNCHANGED <<env, dom, element, wordRects, resizeTimeout, listeners,
                   timers, warned, lifecycle, burst, sinceResize, resizes>>
    /\ UNCHANGED contact

\* a frame boundary: the browser runs the callbacks of the frame queue.  The
\* callback of handleMouseMove calls updateWordPositions with the position of
\* its own event and clears rafId.
FrameBoundary ==
    /\ Idle
    /\ frames # <<>>
    /\ LET e == frames[Len(frames)].e
       IN  words' = updateWordPositions(words, wordRects, MouseX(e), MouseY(e))
    /\ rafId' = Null
    /\ frames' = <<>>
    /\ window' = EmptyWindow
    /\ UNCHANGED <<env, dom, element, wordRects, isActive, resizeTimeout,
                   listeners, timers, warned, lifecycle, burst, sinceResize, resizes>>
    /\ UNCHANGED contact

\* a mouseleave event on the hero section
MouseLeave ==
    /\ Idle
    /\ mouseListeners
    /\ Len(timers) < MaxTimers
    /\ handleMouseLeave
    /\ window' = EmptyWindow
    /\ UNCHANGED <<env, dom, element, wordRects, isActive, resizeTimeout,
                   listeners, warned, lifecycle, burst, sinceResize, resizes>>
    /\ UNCHANGED contact

\* the window is resized to width w; the resize event runs handleResize if
\* the listener is registered
Resize(w) ==
    /\ Idle
    /\ w # innerWidth
    /\ resizes < MaxResizes
    /\ resizes' = resizes + 1
    /\ innerWidth' = w
    /\ IF resizeListener
       THEN /\ handleResize
            /\ burst' = IF sinceResize >= ResizeDelay
                        THEN [events |-> 1, checks |-> 0, rebuilds |-> 0]
                        ELSE burst
            /\ sinceResize' = 0
       ELSE UNCHANGED <<timers, resizeTimeout, burst, sinceResize>>
    /\ UNCHANGED <<touch, reducedMotion, scrollY, elementFound, heroSection,
                   originalText, dom, element, words, wordRects, rafId, isActive,
                   listeners, frames, warned, lifecycle, window>>
    /\ UNCHANGED contact

\* the callback of handleResize without the eligibility re-check
resizeCallback_NoRecheck ==
    /\ cacheBoundingRects(words)
    /\ burst' = [burst EXCEPT !.checks = Min(@ + 1, 2),
                              !.rebuilds = Min(@ + 1, 2)]
    /\ UNCHANGED <<dom, words, rafId, isActive, listeners, frames,
                   lifecycle, window>>

\* the callback handleResize gave to setTimeout
resizeCallback ==
    IF ~shouldInitialize
    THEN /\ destroy
         /\ burst' = [burst EXCEPT !.checks = Min(@ + 1, 2)]
    ELSE /\ cacheBoundingRects(words)
         /\ burst' = [burst EXCEPT !.checks = Min(@ + 1, 2),
                                   !.rebuilds = Min(@ + 1, 2)]
         /\ UNCHANGED <<dom, words, rafId, isActive, listeners, frames,
                        lifecycle, window>>

\* the debounce timer of handleResize is due and runs
ResizeTimer ==
    /\ lifecycle # "New"
    /\ TimerDue
    /\ NextDue.kind = "resize"
    /\ timers' = Without(timers, NextDue.id)
    /\ resizeCallback
    /\ UNCHANGED <<env, element, resizeTimeout, motionListener, warned, sinceResize,
                   resizes>>
    /\ UNCHANGED contact

\* the timer of reset with a callback that removes the class active and
\* leaves isActive set
ClearTimer_KeepsFlag ==
    /\ lifecycle # "New"
    /\ TimerDue
    /\ NextDue.kind = "clear"
    /\ timers' = Without(timers, NextDue.id)
    /\ words' = [i \in 1..Len(words) |-> [words[i] EXCEPT !.active = FALSE]]
    /\ isActive' = isActive
    /\ UNCHANGED <<env, dom, element, wordRects, rafId, resizeTimeout, listeners,
                   frames, warned, history>>
    /\ UNCHANGED contact

\* the timer of reset is due and runs: it removes the class active
ClearTimer ==
    /\ lifecycle # "New"
    /\ TimerDue
    /\ NextDue.kind = "clear"
    /\ timers' = Without(timers, NextDue.id)
    /\ words' = [i \in 1..Len(words) |-> [words[i] EXCEPT !.active = FALSE]]
    /\ isActive' = FALSE
    /\ UNCHANGED <<env, dom, element, wordRects, rafId, resizeTimeout, listeners,
                   frames, warned, history>>
    /\ UNCHANGED contact

\* the time to the next instant at which something is due: a timer, or
\* the end of the current resize burst
RECURSIVE MinRem(_, _)
MinRem(queue, least) ==
    IF Len(queue) = 0 THEN least
    ELSE MinRem(Tail(queue), Min(least, queue[1].rem))

\* time passes: TickStep ms, or less if something is due sooner
Tick ==
    /\ Idle
    /\ timers # <<>> \/ sinceResize < ResizeDelay
    /\ LET quiet == IF sinceResize < ResizeDelay THEN ResizeDelay - sinceResize
                    ELSE TickStep
           d == MinRem(timers, Min(TickStep, quiet))
       IN  /\ timers' = [i \in 1..Len(timers) |-> [timers[i] EXCEPT !.rem = @ - d]]
           /\ sinceResize' = Min(sinceResize + d, ResizeDelay)
    /\ UNCHANGED <<env, dom, element, words, wordRects, rafId, isActive,
                   resizeTimeout, listeners, frames, warned, lifecycle, window, burst,
                   resizes>>
    /\ UNCHANGED contact

\* the listener of setupReducedMotionListener without its test of e.matches
motionChange_AnyChange(matches) == destroy

\* the listener setupReducedMotionListener registered
motionChange(matches) ==
    IF matches
    THEN destroy
    ELSE UNCHANGED <<dom, words, wordRects, rafId, isActive, mouseListeners,
                     resizeListener, frames, lifecycle, window>>

\* the user changes the reduced-motion preference; the change event runs
\* the listener if it is registered
MotionChange ==
    /\ Idle
    /\ reducedMotion' = ~reducedMotion
    /\ IF motionListener
       THEN motionChange(reducedMotion')
       ELSE UNCHANGED <<dom, words, wordRects, rafId, isActive, mouseListeners,
                        resizeListener, frames, lifecycle, window>>
    /\ UNCHANGED <<touch, innerWidth, scrollY, elementFound, heroSection,
                   originalText, element, resizeTimeout, motionListener, timers,
                   warned, burst, sinceResize, resizes>>
    /\ UNCHANGED contact

\* the page calls destroy() on the instance it has built
Destroy ==
    /\ Idle
    /\ lifecycle = "Active"
    /\ destroy
    /\ UNCHANGED <<env, element, resizeTimeout, motionListener, timers, warned,
                   burst, sinceResize, resizes>>
    /\ UNCHANGED contact

Next ==
    \/ Construct
    \/ \E e \in Pointers : MouseMove(e)
    \/ FrameBoundary
    \/ MouseLeave
    \/ \E w \in Widths : Resize(w)
    \/ ResizeTimer
    \/ ClearTimer
    \/ Tick
    \/ MotionChange
    \/ Destroy

Spec == Init /\ [][Next]_vars

(***************************************************************************)
(* The same program with the browser's scheduling: time passes while a     *)
(* timer is outstanding, and a timer that is due runs its callback.        *)
(***************************************************************************)
Fairness ==
    /\ WF_vars(Tick)
    /\ WF_vars(ClearTimer)
    /\ WF_vars(ResizeTimer)

SpecLive == Init /\ [][Next]_vars /\ Fairness

(***************************************************************************)
(* calculateMagneticForce as a function of the pointer position: an        *)
(* instance with the one word "a", whose cached centre is the resting      *)
(* centre of the word or one fixed-point unit beside it (a centre cached   *)
(* while the word was displaced), receives frame updates for pointer       *)
(* positions on a grid around it.                                          *)
(***************************************************************************)
\* the grid spacing, in pixels: the points at 5 steps on an axis and at
\* (3, 4) steps are at exactly maxDistance from the resting centre
GridStep == maxDistance \div 5

\* the cached rectangle of the word "a" in the narrowest desktop viewport
RestingRect == MeasureRects(SplitWords(<<"a">>), DesktopBreakpoint + 1, 0)[1]

\* the pointer events of the grid, centred on the resting centre
GridPointers ==
    {[clientX |-> RestingRect.centerX \div Scale + GridStep * i,
      clientY |-> RestingRect.centerY \div Scale + GridStep * j] :
        i \in (-MaxSteps)..MaxSteps, j \in (-MaxSteps)..MaxSteps}

\* the fixed-point offsets of the cached centre from the resting centre
Offsets == {-1, 0, 1}

InitForce ==
    /\ touch = FALSE
    /\ innerWidth = DesktopBreakpoint + 1
    /\ reducedMotion = FALSE
    /\ scrollY = 0
    /\ elementFound = TRUE
    /\ heroSection = TRUE
    /\ originalText = <<"a">>
    /\ content = SplitContent(originalText)
    /\ magneticEnabled = TRUE
    /\ element = TRUE
    /\ words = SplitWords(originalText)
    /\ \E dx \in Offsets, dy \in Offsets :
          wordRects = <<[RestingRect EXCEPT !.centerX = @ + dx, !.centerY = @ + dy,
                                            !.left = @ + dx, !.top = @ + dy]>>
    /\ rafId = Null
    /\ isActive = FALSE
    /\ resizeTimeout = Null
    /\ mouseListeners = TRUE
    /\ resizeListener = TRUE
    /\ motionListener = TRUE
    /\ frames = <<>>
    /\ timers = <<>>
    /\ warned = FALSE
    /\ lifecycle = "Active"
    /\ window = EmptyWindow
    /\ burst = NoBurst
    /\ sinceResize = ResizeDelay
    /\ resizes = 0
    /\ ContactLoaded

\* the frame callback of a pointer-move e: updateWordPositions at the
\* document position of e
FrameUpdate(e) ==
    /\ words' = updateWordPositions(words, wordRects, MouseX(e), MouseY(e))
    /\ window' = [EmptyWindow EXCEPT !.latest = e]
    /\ UNCHANGED <<env, dom, element, wordRects, rafId, isActive, resizeTimeout,
                   listeners, frames, timers, warned, lifecycle, burst,
                   sinceResize, resizes>>
    /\ UNCHANGED contact

NextForce == \E e \in GridPointers : FrameUpdate(e)

SpecForce == InitForce /\ [][NextForce]_vars

(***************************************************************************)
(* splitTextIntoWords as a function of the container's text: an instance   *)
(* is constructed in an eligible environment on a container holding any    *)
(* text of at most MaxTextLen characters, spaces included.                 *)
(***************************************************************************)
Chars == {"a", "b", " "}

AllTexts == UNION {[1..n -> Chars] : n \in 0..MaxTextLen}

InitSplit ==
    /\ touch = FALSE
    /\ innerWidth = DesktopBreakpoint + 1
    /\ reducedMotion = FALSE
    /\ scrollY = 0
    /\ elementFound = TRUE
    /\ heroSection = TRUE
    /\ originalText \in AllTexts
    /\ content = PlainText(originalText)
    /\ magneticEnabled = FALSE
    /\ element = FALSE
    /\ words = <<>>
    /\ wordRects = <<>>
    /\ rafId = Null
    /\ isActive = FALSE
    /\ resizeTimeout = Null
    /\ mouseListeners = FALSE
    /\ resizeListener = FALSE
    /\ motionListener = FALSE
    /\ frames = <<>>
    /\ timers = <<>>
    /\ warned = FALSE
    /\ lifecycle = "New"
    /\ window = EmptyWindow
    /\ burst = NoBurst
    /\ sinceResize = ResizeDelay
    /\ resizes = 0
    /\ ContactLoaded

NextSplit == Construct

SpecSplit == InitSplit /\ [][NextSplit]_vars

(***************************************************************************)
(* The contact form on a page without hero text.  A fetch that has been    *)
(* issued settles (it resolves with a response or it rejects), and the     *)
(* handler that awaits it then resumes.                                    *)
(***************************************************************************)
InitForm ==
    /\ Init
    /\ touch /\ innerWidth = DesktopBreakpoint /\ reducedMotion /\ ~elementFound

NextForm ==
    \/ \E i \in 1..Len(fields) : \E v \in ValuesOf(fields[i].type) : InputField(i, v)
    \/ \E i \in 1..Len(fields) : BlurField(i)
    \/ Submit
    \/ Settle
    \/ Resume

SpecForm == InitForm /\ [][NextForm]_vars

SpecFormLive ==
    InitForm /\ [][NextForm]_vars /\ WF_vars(Settle) /\ WF_vars(Resume)

(***************************************************************************)
(* Properties.                                                             *)
(***************************************************************************)
Active == lifecycle = "Active"
Destroyed == lifecycle = "Destroyed"

\* the resize debounce timers that are outstanding
ResizeTimers == SelectSeq(timers, LAMBDA t : t.kind = "resize")

\* the container holds plain text only: no word or space span
PlainContent == \A k \in 1..Len(content) : content[k].kind = "text"

\* C1: pointer-moves between two frame boundaries are coalesced.  At most one
\* frame callback is outstanding at any time; once one or more pointer-moves
\* have been delivered since the last frame boundary (or pointer-leave or
\* teardown), exactly one frame callback has been requested and exactly one
\* is outstanding, so the frame boundary, which runs every outstanding
\* callback once, makes exactly one style update.
C1_MovesCoalesced ==
    /\ Len(frames) <= 1
    /\ window.moves >= 1 => (window.scheduled = 1 /\ Len(frames) = 1)
    /\ window.moves = 0 => window.scheduled = 0

\* two pointer-moves have been delivered since the last frame boundary and
\* one frame callback is outstanding
C1_Witness == Active /\ window.moves = 2 /\ Len(frames) = 1

\* C2: the style update made at a frame boundary is computed from the
\* position of the latest pointer-move delivered before it.
C2_UpdateUsesLatestMove ==
    [][FrameBoundary =>
         words' = updateWordPositions(words, wordRects,
                                      MouseX(window.latest), MouseY(window.latest))]_vars

\* C3: once the instance has been torn down, the container's text is the
\* original text.
C3_TeardownRestoresText ==
    Destroyed => TextContent(content) = originalText

\* C4: once destroy() has run, no step changes the container's content or
\* class, a word, or a field of the instance.
C4_NothingRunsAfterDestroy ==
    [][Destroyed => UNCHANGED <<content, magneticEnabled, element, words, wordRects,
                                rafId, isActive, resizeTimeout>>]_vars

\* C5: once destroy() has run, no frame callback and no timer of the
\* instance is outstanding.
C5_DestroyCancelsAll ==
    Destroyed => (frames = <<>> /\ timers = <<>>)

\* C6: a destroyed instance stays torn down whatever happens later: it
\* holds no words and no geometry, its pointer and resize listeners are
\* detached, the container holds plain text without the magnetic-enabled
\* class, and no frame update is outstanding.
C6_DestroyedIsTerminal ==
    Destroyed =>
        /\ words = <<>>
        /\ wordRects = <<>>
        /\ ~mouseListeners
        /\ ~resizeListener
        /\ PlainContent
        /\ ~magneticEnabled
        /\ frames = <<>>
        /\ rafId = Null
        /\ ~isActive

\* the instance was destroyed, a resize event has happened, and the
\* environment is eligible (again)
C6_Witness ==
    Destroyed /\ shouldInitialize /\ resizes >= 1 /\ timers = <<>>

\* C7: the eligibility gate is false exactly when the device is touch
\* capable, the viewport is at most 1024 wide, or reduced motion is
\* preferred; an instance constructed on a touch device is Uninitialized:
\* the container is not segmented and no listener is registered.
C7_EligibilityGate ==
    /\ shouldInitialize <=>
          ~(touch \/ innerWidth <= DesktopBreakpoint \/ reducedMotion)
    /\ (touch /\ lifecycle # "New") =>
          /\ lifecycle = "Uninitialized"
          /\ content = PlainText(originalText)
          /\ ~magneticEnabled
          /\ words = <<>>
          /\ ~mouseListeners /\ ~resizeListener /\ ~motionListener

\* an instance constructed on a touch device whose viewport and motion
\* preference would allow the effect
C7_Witness ==
    /\ touch /\ lifecycle = "Uninitialized"
    /\ innerWidth > DesktopBreakpoint /\ ~reducedMotion

\* C8: resize events are debounced.  At most one debounce timer is
\* outstanding; while one is, it is due ResizeDelay after the last resize
\* event and the burst has had no eligibility re-check yet; once the burst
\* is over it has had exactly one re-check and at most one geometry rebuild.
C8_ResizeDebounced ==
    /\ Len(ResizeTimers) <= 1
    /\ Len(ResizeTimers) = 1 =>
          /\ ResizeTimers[1].rem = ResizeDelay - sinceResize
          /\ burst.events = 1 /\ burst.checks = 0 /\ burst.rebuilds = 0
    /\ (Len(ResizeTimers) = 0 /\ burst.events = 1) =>
          /\ burst.checks = 1
          /\ burst.rebuilds <= 1
          /\ sinceResize = ResizeDelay

\* a burst of two resize events, the second less than ResizeDelay after the
\* first, has ended with one re-check, which rebuilt the geometry
C8_Witness ==
    /\ Active /\ resizes = 2 /\ timers = <<>>
    /\ burst.checks = 1 /\ burst.rebuilds = 1

C10_MotionPreference ==
    [][(reducedMotion' # reducedMotion) =>
         /\ (reducedMotion' /\ Active) =>
               /\ lifecycle' = "Destroyed"
               /\ content' = PlainText(originalText)
               /\ ~mouseListeners' /\ ~resizeListener'
               /\ words' = <<>> /\ wordRects' = <<>>
         /\ ~reducedMotion' =>
               UNCHANGED <<dom, element, words, wordRects, rafId, isActive,
                           resizeTimeout, listeners, frames, timers, lifecycle>>]_vars

\* the preference changed to reduced on an Active instance, which was
\* destroyed by it: no resize event has happened and the text is the
\* original one
C10_Witness ==
    /\ Destroyed /\ reducedMotion /\ resizes = 0
    /\ Len(originalText) > 1 /\ TextContent(content) = originalText

\* some word is displaced
Displaced == \E i \in 1..Len(words) : words[i].transform # Zero

\* C11: between any two handlers the instance has as many cached rectangles
\* as words, in the same order: updateWordPositions finds wordRects[i] for
\* every word i.
C11_RectForEveryWord ==
    /\ Len(wordRects) = Len(words)
    /\ DOMAIN wordRects = DOMAIN words

\* a frame callback has run updateWordPositions over two words and has
\* displaced one of them
C11_Witness == Active /\ Len(words) = 2 /\ Len(wordRects) = 2 /\ Displaced

\* the square of the exact distance, in fixed-point units, from the cached
\* centre of word i to the pointer position of the latest update
DistanceSquared(i) ==
    LET deltaX == MouseX(window.latest) - wordRects[i].centerX
        deltaY == MouseY(window.latest) - wordRects[i].centerY
    IN  deltaX * deltaX + deltaY * deltaY

Reach == maxDistance * Scale

\* C12: after a frame update, every word whose cached centre is at
\* maxDistance or more from the pointer (exactly maxDistance included) has
\* the displacement (0, 0).
C12_ZeroBeyondReach ==
    window.latest # NoEvent =>
        \A i \in 1..Len(words) :
            DistanceSquared(i) >= Reach * Reach => words[i].transform = Zero

\* an update with the pointer at exactly maxDistance from the cached centre,
\* on a diagonal
C12_Witness ==
    /\ window.latest # NoEvent
    /\ DistanceSquared(1) = Reach * Reach
    /\ MouseX(window.latest) # wordRects[1].centerX
    /\ MouseY(window.latest) # wordRects[1].centerY
    /\ words[1].transform = Zero

\* the fixed-point units by which the measured magnitude of a displacement
\* may differ from the exact one: displacement, translateX and translateY
\* are each cut to a whole unit, and so is the measured magnitude
Truncations == 4

\* the magnitude of the displacement of word i, cut to a whole unit
Magnitude(i) ==
    LET t == words[i].transform
        m == t.translateX * t.translateX + t.translateY * t.translateY
    IN  SqrtIn(m, 0, Abs(t.translateX) + Abs(t.translateY))

\* C13: after a frame update, a word whose cached centre is at the pointer
\* is displaced by exactly maxDisplacement, and a word at a distance d <
\* maxDistance from the pointer is displaced by (1 - d / maxDistance) *
\* maxDisplacement, up to the rounding of the fixed-point arithmetic.
C13_ForceFallsLinearly ==
    window.latest # NoEvent =>
        \A i \in 1..Len(words) :
            LET t == words[i].transform
                d == SqrtIn(DistanceSquared(i), 0, 2 * Reach)
            IN  /\ DistanceSquared(i) = 0 =>
                      t.translateX * t.translateX + t.translateY * t.translateY
                          = (maxDisplacement * Scale) * (maxDisplacement * Scale)
                /\ DistanceSquared(i) < Reach * Reach =>
                      Abs(Magnitude(i) * maxDistance - (Reach - d) * maxDisplacement)
                          <= Truncations * maxDistance

\* an update with the pointer exactly at the cached centre of the word
C13_Witness ==
    /\ window.latest # NoEvent
    /\ DistanceSquared(1) = 0
    /\ words[1].transform = [translateX |-> maxDisplacement * Scale, translateY |-> 0]

\* the instance has touched nothing: the container is as the page loaded
\* it, no listener is registered and no callback is scheduled
Untouched ==
    /\ ~element /\ words = <<>> /\ wordRects = <<>>
    /\ content = PlainText(originalText) /\ ~magneticEnabled
    /\ ~mouseListeners /\ ~resizeListener /\ ~motionListener
    /\ frames = <<>> /\ timers = <<>>
    /\ rafId = Null /\ resizeTimeout = Null /\ ~isActive

\* C14: when init looks the selector up and finds no element, it logs a
\* warning and the instance is Uninitialized; from then on, whatever event
\* is delivered, the instance stays Uninitialized, mutates nothing of the
\* DOM, registers no listener and schedules no callback.
C14_NotFoundStaysUninitialized ==
    /\ [][(lifecycle = "New" /\ shouldInitialize /\ ~elementFound) =>
             (warned' /\ lifecycle' = "Uninitialized")]_vars
    /\ [](warned => (lifecycle = "Uninitialized" /\ Untouched))
    /\ [][warned => (warned' /\ lifecycle' = "Uninitialized")]_vars

\* the warning was logged and since then the window has been resized twice
\* and the motion preference changed
C14_Witness ==
    /\ warned /\ ~elementFound /\ lifecycle = "Uninitialized"
    /\ resizes = MaxResizes /\ reducedMotion

\* the active-clear timers that are outstanding
ClearTimers == SelectSeq(timers, LAMBDA t : t.kind = "clear")

\* C15: a pointer-leave leaves no frame callback outstanding and every word
\* at translate (0, 0); afterwards a word is displaced only by a frame
\* callback that runs, and a frame callback is outstanding only if a
\* pointer-move has requested it, so the words rest until the frame of a
\* later pointer-move runs.
C15_LeaveRestsWords ==
    /\ [][MouseLeave => (frames' = <<>> /\ rafId' = Null /\ ~Displaced')]_vars
    /\ [][(~Displaced /\ Displaced') => (frames # <<>> /\ frames' = <<>>)]_vars
    /\ [][(frames = <<>> /\ frames' # <<>>) => \E e \in Pointers : MouseMove(e)]_vars

\* a pointer-leave has just run on an Active instance with two words: its
\* clear timer has its full delay left, no frame callback is outstanding
\* and the words rest
C15_Witness ==
    /\ Active /\ Len(words) = 2 /\ isActive
    /\ \E i \in 1..Len(timers) :
          timers[i].kind = "clear" /\ timers[i].rem = resetDuration
    /\ frames = <<>> /\ rafId = Null /\ ~Displaced

\* C16: while the pointer is inside the hero section and has moved since
\* the last pointer-leave, no timer clears the active flag.  A frame
\* callback that is outstanding before and after a step was requested by a
\* pointer-move after the last pointer-leave (which would have cancelled
\* it), and the step is neither a pointer-leave nor a teardown: such a step
\* does not clear the active flag.
C16_ActiveWhilePointerInside ==
    [][(isActive /\ frames # <<>> /\ frames' # <<>>) => isActive']_vars

\* C17: a destroyed instance holds no references: words and wordRects are
\* empty, isActive is false, the frame handle and the resize-debounce handle
\* are cleared and the reference to the container is dropped.
C17_DestroyedHoldsNothing ==
    Destroyed =>
        /\ words = <<>> /\ wordRects = <<>>
        /\ ~isActive
        /\ rafId = Null
        /\ resizeTimeout = Null
        /\ ~element

\* C18: when the eligibility gate is false at construction, init returns
\* before it looks the selector up (no warning is logged even if no element
\* matches): the container is not segmented, no listener and no
\* motion-preference subscription is registered, and the instance stays
\* Uninitialized and untouched under every later event, also when the
\* environment becomes eligible.
C18_IneligibleStaysUninitialized ==
    /\ [][(lifecycle = "New" /\ ~shouldInitialize) =>
             (lifecycle' = "Uninitialized" /\ ~warned' /\ Untouched')]_vars
    /\ [][(lifecycle = "Uninitialized" /\ ~warned) =>
             (lifecycle' = "Uninitialized" /\ ~warned' /\ Untouched')]_vars

\* an instance that was constructed in an ineligible environment, which a
\* resize has made eligible since; the container exists
C18_Witness ==
    /\ lifecycle = "Uninitialized" /\ ~warned /\ elementFound
    /\ shouldInitialize /\ resizes >= 1
    /\ Untouched

\* the number of literal spaces of text
Spaces(text) == Cardinality({i \in 1..Len(text) : text[i] = " "})

\* C19: segmenting a text with k literal spaces gives k + 1 word elements
\* and k separators of one space each, alternating from a word to a word in
\* the order of the text; no word holds a space, and the texts of the
\* children, concatenated, are the original text.
C19_SegmentationIsLossless ==
    lifecycle = "Active" =>
        LET k == Spaces(originalText)
        IN  /\ Len(words) = k + 1
            /\ Len(content) = 2 * k + 1
            /\ \A j \in 1..Len(content) :
                  IF j % 2 = 1
                  THEN /\ content[j].kind = "word"
                       /\ content[j].text = words[(j + 1) \div 2].text
                       /\ Spaces(content[j].text) = 0
                  ELSE /\ content[j].kind = "space"
                       /\ content[j].text = <<" ">>
            /\ TextContent(content) = originalText

\* a text with two consecutive spaces has been segmented: the word between
\* them is empty
C19_Witness ==
    /\ lifecycle = "Active"
    /\ originalText = <<"a", " ", " ", "b">>
    /\ Len(words) = 3 /\ words[2].text = <<>>
    /\ Len(content) = 5

\* the step leaves the active flag and the class active of every word alone
ActiveUntouched ==
    /\ isActive' = isActive
    /\ Len(words') = Len(words)
    /\ \A i \in 1..Len(words) : words'[i].active = words[i].active

C21_DestroyIsIdempotent ==
    [][Destroyed => (TextContent(content') = TextContent(content)
                     /\ magneticEnabled' = magneticEnabled)]_vars

\* the words with no displacement applied
RestingWords == [i \in 1..Len(words) |-> [words[i] EXCEPT !.transform = Zero]]

\* C22: every cached rectangle records the resting centre of its word: the
\* centre the word has, at the viewport width at which it was measured,
\* with translate (0, 0), also when the rectangles were rebuilt while the
\* word was displaced.
C22_CachedCentreIsResting ==
    \A i \in 1..Len(wordRects) :
        \E w \in Widths :
            LET resting == MeasureRects(RestingWords, w, scrollY)[i]
            IN  /\ wordRects[i].centerX = resting.centerX
                /\ wordRects[i].centerY = resting.centerY

\* C23: on an Active instance, whenever a word is displaced or a frame
\* callback is outstanding, the active flag is set and every word has the
\* class active; a frame callback never runs while the flag is false.
C23_ActiveWhileAnimating ==
    /\ [](Active /\ (Displaced \/ frames # <<>>) =>
             (isActive /\ \A i \in 1..Len(words) : words[i].active))
    /\ [][FrameBoundary => isActive]_vars

\* the active flag is false, every word rests and no frame callback is
\* outstanding
Quiescent == ~isActive /\ ~Displaced /\ frames = <<>> /\ rafId = Null

\* the state a pointer-leave leaves an Active instance in when its active
\* flag was set, for as long as no pointer-move is delivered: the clear
\* timer is outstanding, the flag is still set, every word rests and no
\* frame callback is outstanding
LeftAndStill ==
    /\ Active /\ isActive /\ ClearTimers # <<>>
    /\ ~Displaced /\ frames = <<>> /\ rafId = Null /\ window.moves = 0

\* C24: after a pointer-leave on an Active instance, unless a pointer-move
\* or a teardown comes first, the instance reaches a quiescent state
\* (active flag false, every transform zero, no frame callback pending);
\* and a quiescent Active instance stays quiescent in every step that is
\* not a pointer-move.
C24_LeaveReachesQuiescence ==
    /\ [](LeftAndStill => <>(Quiescent \/ window.moves > 0 \/ ~Active))
    /\ [][(Active /\ Quiescent /\ Active' /\ ~(\E e \in Pointers : MouseMove(e)))
             => Quiescent']_vars

\* the clear timer of a pointer-leave on an instance with two words is due
\* and no pointer-move has been delivered: its callback runs next
C24_Witness ==
    /\ LeftAndStill /\ Len(words) = 2
    /\ Len(ClearTimers) = 1 /\ ClearTimers[1].rem = 0
    /\ \A i \in 1..Len(words) : words[i].active

\* a required field passes: its value is not empty after trimming and, for
\* an email field, is a well-formed address
Passes(field) ==
    /\ Trim(field.value) # <<>>
    /\ field.type = "email" => isValidEmail(Trim(field.value))

AllPass == \A i \in 1..Len(fields) : Passes(fields[i])

Values(fs) == [i \in 1..Len(fs) |-> fs[i].value]

\* C25: a POST is issued only by a submission in which every required
\* field passes; a submission in which some required field fails sends no
\* request, shows the error status, leaves the submit button enabled and
\* keeps the values of the form.
C25_PostOnlyWhenValid ==
    /\ [][(posts' # posts \/ Len(requests') > Len(requests)) =>
             (AllPass /\ posts' = posts + 1
              /\ requests' = Append(requests, [body |-> Values(fields),
                                            state |-> "pending"]))]_vars
    /\ [][(Submit /\ ~AllPass) =>
             /\ posts' = posts /\ requests' = requests
             /\ formStatus' = InvalidStatus
             /\ ~submitBtn'.disabled /\ submitBtn'.textContent = SendLabel
             /\ Values(fields') = Values(fields)]_vars

\* a submission with a name and an address without a dot was refused: the
\* error status is shown, the email field carries its message, nothing was
\* sent and the button is enabled
C25_Witness ==
    /\ formStatus = InvalidStatus
    /\ fields[1].value = <<"a">> /\ fields[1].error = ""
    /\ fields[2].value = <<"a", "@", "b">> /\ fields[2].error = EmailMessage
    /\ posts = 0 /\ requests = <<>>
    /\ ~submitBtn.disabled

\* C26: while a request is in flight the submit button is disabled; it is
\* eventually enabled again with the label Send Message, however the
\* request ends; the handler resets the form and shows the success status
\* when the response is ok, and only then: after a response that is not ok
\* or a throw it shows the error status and keeps the values.
C26_ButtonRestored ==
    /\ [](requests # <<>> =>
             (submitBtn.disabled /\ submitBtn.textContent = SendingLabel))
    /\ [](requests # <<>> =>
             <>(~submitBtn.disabled /\ submitBtn.textContent = SendLabel))
    /\ [][Resume =>
             /\ ~submitBtn'.disabled /\ submitBtn'.textContent = SendLabel
             /\ IF requests[1].state = "ok"
                THEN /\ formStatus' = SuccessStatus
                     /\ \A i \in 1..Len(fields) : fields'[i].value = <<>>
                ELSE /\ formStatus' = FailureStatus
                     /\ Values(fields') = Values(fields)]_vars

\* a request that was not ok has ended: the error status is shown, the
\* button is enabled with its label and the values that were sent are
\* still in the form
C26_Witness ==
    /\ posts = 1 /\ requests = <<>>
    /\ formStatus = FailureStatus
    /\ submitBtn = [disabled |-> FALSE, textContent |-> SendLabel]
    /\ AllPass

====
